---- MODULE Spec2Model ----
(***************************************************************************)
(* Model of the rgis layer store (rgis-layers), the GeoJSON loading        *)
(* pipeline (rgis-file-loader) and the systems that mutate the store.      *)
(*                                                                         *)
(* Coordinates are abstracted to the integer points of a line: a geometry  *)
(* is the set of points it contains, its bounding rect the interval        *)
(* [min, max] of those points.  Geometries are given as already projected  *)
(* into the target CRS (the reprojection itself is the external proj       *)
(* library).  A bevy Color is an integer code.                             *)
(***************************************************************************)
EXTENDS Integers, Sequences, FiniteSets, TLC

\* ---- bounds of the model ----
MaxIds == 3        \* geometries requested for loading over a run
MaxLayers == 3     \* layers in the store and on their way to it at one time
MaxBatch == 1      \* events read by one run of a system of rgis-layers
MaxPending == 1    \* load requests waiting in Events<LoadGeoJsonFileEvent>
RWBatch == 2       \* events read by one run of a system in SpecRW
MaxRendererEvents == 2  \* Show, Hide and color events waiting for the renderer

\* ---- program constants ----
PaletteSize == 10              \* COLORS: [colorous::Color; 10]
UsizeMax == 2147483647         \* usize::MAX (largest integer TLC represents)

None == -1                     \* Option::None for ids and indices

\* ---- abstract geometry ----
Points == 1..3
GA == {1, 3}                   \* contains 1 and 3; its bounding rect also spans 2
GB == {2, 3}
EmptyGeom == {}                \* a geometry with no bounding rect
Sources == {<<GA>>, <<GB, GA>>, <<GA, EmptyGeom>>}

UserColors == {10}             \* colors a UI can pick in UpdateLayerColorEvent
COLORS == [i \in 0..(PaletteSize - 1) |-> 100 + i]

Ids == 1..MaxIds

SetMin(S) == CHOOSE x \in S : \A y \in S : x <= y
SetMax(S) == CHOOSE x \in S : \A y \in S : x >= y

Range(f) == {f[i] : i \in DOMAIN f}

\* Sequences over S of length 1..n
RECURSIVE SeqsUpTo(_, _)
SeqsUpTo(S, n) ==
  IF n = 0 THEN {}
  ELSE LET shorter == SeqsUpTo(S, n - 1)
       IN  {<<x>> : x \in S} \cup shorter
             \cup {Append(s, x) : s \in shorter, x \in S}

VARIABLES
  data,                 \* Layers.data: Vec<Layer>, index 1 = bottom
  selected_layer_id,    \* Layers.selected_layer_id
  COUNTER,              \* static COUNTER of next_color_index
  layer_id_counter,     \* state of the LayerId generator
  issued,               \* the ids returned by Layers::add so far, in order
  panicked,             \* a system panicked: the app is gone
  load_events,          \* Events<LoadGeoJsonFileEvent>
  requested,            \* geometries requested so far (bounds the run)
  network_tasks,        \* running NetworkFetchTasks
  network_finished,     \* Events<TaskFinishedEvent<NetworkFetchTask>>
  tasks,                \* running LoadGeoJsonFileTasks (overtaken is history)
  task_finished,        \* Events<TaskFinishedEvent<LoadGeoJsonFileTask>>
  emitted,              \* events sent by the systems in the current frame
  writer,               \* SpecRW: the system run that has the store for writing
  reader,               \* SpecRW: the renderer system reading the store
  entity_store,         \* SpecRender: EntityStore, LayerId -> Vec<Entity>
  world,                \* SpecRender: the entities spawned and not despawned
  renderer_events,      \* SpecRender: the events the renderer has not read yet
  last                  \* the system that ran in the current frame, one record
                        \* per iteration of its loop

vars == <<data, selected_layer_id, COUNTER, layer_id_counter, issued,
          panicked, load_events, requested, network_tasks, network_finished,
          tasks, task_finished, emitted, writer, reader, entity_store, world,
          renderer_events, last>>

storeVars == <<data, selected_layer_id>>
rwVars == <<writer, reader>>
renderVars == <<entity_store, world, renderer_events>>
pipeVars == <<load_events, requested, network_tasks, network_finished, tasks,
              task_finished>>

\* ---- Feature ----
\* geo::Rect contains a coordinate
RectContains(rect, coord) == rect.min <= coord /\ coord <= rect.max

\* As FeatureContains, with the test of the bounding rect alone
FeatureContainsRect(feature, coord) ==
  RectContains(feature.bounding_rect, coord)

\* impl Contains<Coordinate> for Feature
FeatureContains(feature, coord) ==
  RectContains(feature.bounding_rect, coord) /\ coord \in feature.geometry

\* Feature::from_geometry
FeatureFromGeometry(geometry) ==
  IF geometry = {}
  THEN [ok |-> FALSE, err |-> "BoundingBox"]
  ELSE [ok |-> TRUE,
        value |-> [geometry |-> geometry,
                   bounding_rect |-> [min |-> SetMin(geometry),
                                      max |-> SetMax(geometry)]]]

\* next_color_index: fetch_add on the static COUNTER, modulo the palette size
NextColorIndex(counter) == [index |-> counter % PaletteSize, counter |-> counter + 1]

\* UnassignedLayer::from_geometry: the features are built first, the color
\* (and so the COUNTER) is only touched when both succeeded
UnassignedLayerFromGeometry(geometry, counter) ==
  LET f == FeatureFromGeometry(geometry)
      c == NextColorIndex(counter)
  IN  IF ~f.ok
      THEN [ok |-> FALSE, err |-> f.err, counter |-> counter]
      ELSE [ok |-> TRUE,
            value |-> [projected_feature |-> f.value,
                       color |-> COLORS[c.index],
                       visible |-> TRUE],
            counter |-> c.counter]

\* ---- Layers ----
LayersNew == [data |-> <<>>, selected_layer_id |-> None]

Count(d) == Len(d)

\* Layers::iter_top_to_bottom
RECURSIVE Reverse(_)
Reverse(s) == IF s = <<>> THEN <<>> ELSE Append(Reverse(Tail(s)), Head(s))
\* As IterTopToBottom, without the rev()
IterBottomToTop(d) == d

IterTopToBottom(d) == Reverse(d)

\* As ContainingCoord, with the layers that are not visible passed over
ContainingCoordVisible(d, coord) ==
  SelectSeq(IterTopToBottom(d),
            LAMBDA layer : layer.visible /\ FeatureContains(layer.projected_feature, coord))

\* Layers::containing_coord
ContainingCoord(d, coord) ==
  SelectSeq(IterTopToBottom(d), LAMBDA layer : FeatureContains(layer.projected_feature, coord))

\* Layers::get_index: 0-based position of the first entry with the id
GetIndex(d, layer_id) ==
  IF \E i \in DOMAIN d : d[i].id = layer_id
  THEN (CHOOSE i \in DOMAIN d :
          d[i].id = layer_id /\ \A j \in 1..(i - 1) : d[j].id # layer_id) - 1
  ELSE None

\* Vec::get with a 0-based usize index: is there an element at the index
VecHas(d, index) == index >= 0 /\ index < Len(d)
VecAt(d, index) == d[index + 1]

\* Layers::get: the set holding the layer with the id, empty for Option::None
Get(d, layer_id) ==
  LET index == GetIndex(d, layer_id)
  IN  IF index = None \/ ~VecHas(d, index) THEN {} ELSE {VecAt(d, index)}

\* As VecRemove, with Vec::swap_remove: the last element fills the hole
VecRemoveBySwap(d, index) ==
  IF index = Len(d) - 1 THEN SubSeq(d, 1, Len(d) - 1)
  ELSE SubSeq([d EXCEPT ![index + 1] = d[Len(d)]], 1, Len(d) - 1)

\* Vec::remove with a 0-based index
VecRemove(d, index) == SubSeq(d, 1, index) \o SubSeq(d, index + 2, Len(d))

\* As Remove, but an id that is not found removes the bottom layer
RemoveFirstIfAbsent(layers, layer_id) ==
  LET index == GetIndex(layers.data, layer_id)
  IN  IF index # None
      THEN [layers EXCEPT !.data = VecRemove(layers.data, index)]
      ELSE IF layers.data = <<>> THEN layers
      ELSE [layers EXCEPT !.data = VecRemove(layers.data, 0)]

\* Layers::remove
Remove(layers, layer_id) ==
  LET index == GetIndex(layers.data, layer_id)
  IN  IF index # None
      THEN [layers EXCEPT !.data = VecRemove(layers.data, index)]
      ELSE layers

\* LayerId::new
LayerIdNew(idc) == [id |-> idc + 1, counter |-> idc + 1]

\* As NextLayerId, with the id taken from the number of layers in the store
NextLayerIdFromCount(layers, idc) ==
  [id |-> Count(layers.data) + 1, counter |-> idc + 1]

\* Layers::next_layer_id
NextLayerId(layers, idc) == LayerIdNew(idc)

\* As Add, with the new layer put at the bottom of the order
AddAtBottom(layers, unassigned_layer, idc) ==
  LET n == NextLayerId(layers, idc)
      layer == [projected_feature |-> unassigned_layer.projected_feature,
                color |-> unassigned_layer.color,
                visible |-> unassigned_layer.visible,
                id |-> n.id]
  IN  [layers |-> [layers EXCEPT !.data = <<layer>> \o layers.data],
       layer_id |-> n.id,
       counter |-> n.counter]

\* As Add, with the added layer becoming the selected one
AddSelectsNew(layers, unassigned_layer, idc) ==
  LET n == NextLayerId(layers, idc)
      layer == [projected_feature |-> unassigned_layer.projected_feature,
                color |-> unassigned_layer.color,
                visible |-> unassigned_layer.visible,
                id |-> n.id]
  IN  [layers |-> [layers EXCEPT !.data = Append(layers.data, layer),
                                 !.selected_layer_id = n.id],
       layer_id |-> n.id,
       counter |-> n.counter]

\* Layers::add
Add(layers, unassigned_layer, idc) ==
  LET n == NextLayerId(layers, idc)
      layer == [projected_feature |-> unassigned_layer.projected_feature,
                color |-> unassigned_layer.color,
                visible |-> unassigned_layer.visible,
                id |-> n.id]
  IN  [layers |-> [layers EXCEPT !.data = Append(layers.data, layer)],
       layer_id |-> n.id,
       counter |-> n.counter]

\* As SetSelectedLayerFromMousePress, with the comparison made against the
\* clicked layer being some layer at all
SetSelectedReportsHit(layers, coord) ==
  LET iter == ContainingCoord(layers.data, coord)
      new_selected == IF iter = <<>> THEN None ELSE Head(iter).id
  IN  [layers |-> [layers EXCEPT !.selected_layer_id = new_selected],
       changed |-> new_selected # None]

\* Layers::set_selected_layer_from_mouse_press
SetSelectedLayerFromMousePress(layers, coord) ==
  LET iter == ContainingCoord(layers.data, coord)
      new_selected == IF iter = <<>> THEN None ELSE Head(iter).id
      prev_selected_layer_id == layers.selected_layer_id
  IN  [layers |-> [layers EXCEPT !.selected_layer_id = new_selected],
       changed |-> prev_selected_layer_id # new_selected]

\* ---- events read by the systems of rgis-layers ----
ToggleEvents == [id : Ids]
ColorEvents == [id : Ids, color : UserColors]
MoveEvents == [id : Ids, dir : {"Up", "Down"}]
DeleteEvents == [id : Ids]
ClickEvents == [coord : Points]

Event(kind, id) == [kind |-> kind, id |-> id]

\* The outcome of one iteration of a system's event loop
StepResult(layers, out, panic, ret) ==
  [layers |-> layers, out |-> out, panic |-> panic, ret |-> ret]

\* As ToggleStep, with the event chosen by the flag as it was before the flip
ToggleStepEventOfOldState(layers, event, checks) ==
  LET index == GetIndex(layers.data, event.id)
  IN  IF index = None
      THEN StepResult(layers, <<>>, FALSE, None)
      ELSE LET visible == ~layers.data[index + 1].visible
           IN  StepResult([layers EXCEPT !.data[index + 1].visible = visible],
                          IF ~visible
                          THEN <<Event("LayerBecameVisible", event.id)>>
                          ELSE <<Event("LayerBecameHidden", event.id)>>,
                          FALSE, None)

\* handle_toggle_layer_visibility_events, one iteration of the loop
ToggleStep(layers, event, checks) ==
  LET index == GetIndex(layers.data, event.id)
  IN  IF index = None
      THEN StepResult(layers, <<>>, FALSE, None)
      ELSE LET visible == ~layers.data[index + 1].visible
           IN  StepResult([layers EXCEPT !.data[index + 1].visible = visible],
                          IF visible
                          THEN <<Event("LayerBecameVisible", event.id)>>
                          ELSE <<Event("LayerBecameHidden", event.id)>>,
                          FALSE, None)

\* As ColorStep, with the recolored layer shown again
ColorStepShowsLayer(layers, event, checks) ==
  LET index == GetIndex(layers.data, event.id)
  IN  IF index = None
      THEN StepResult(layers, <<>>, FALSE, None)
      ELSE StepResult([layers EXCEPT !.data[index + 1].color = event.color,
                                     !.data[index + 1].visible = TRUE],
                      <<Event("LayerColorUpdated", event.id)>>, FALSE, None)

\* handle_update_color_events, one iteration of the loop
ColorStep(layers, event, checks) ==
  LET index == GetIndex(layers.data, event.id)
  IN  IF index = None
      THEN StepResult(layers, <<>>, FALSE, None)
      ELSE StepResult([layers EXCEPT !.data[index + 1].color = event.color],
                      <<Event("LayerColorUpdated", event.id)>>, FALSE, None)

\* handle_delete_layer_events, one iteration of the loop
DeleteStep(layers, event, checks) ==
  StepResult(Remove(layers, event.id), <<Event("LayerDeleted", event.id)>>,
             FALSE, None)

\* 1-based position of the layer with the id
PositionOf(d, id) == CHOOSE i \in DOMAIN d : d[i].id = id

\* Vec::swap with 0-based indices
VecSwap(d, a, b) == [d EXCEPT ![a + 1] = d[b + 1], ![b + 1] = d[a + 1]]

\* As MoveStep, with the neighbour's id read after the swap
MoveStepIdAfterSwap(layers, event, checks) ==
  LET old_z_index == GetIndex(layers.data, event.id)
  IN  IF old_z_index = None
      THEN StepResult(layers, <<>>, FALSE, None)
      ELSE IF event.dir = "Down" /\ old_z_index = 0 /\ checks
      THEN StepResult(layers, <<>>, TRUE, None)
      ELSE LET new_z_index ==
                 IF event.dir = "Up" THEN old_z_index + 1
                 ELSE IF old_z_index = 0 THEN UsizeMax
                 ELSE old_z_index - 1
           IN  IF ~VecHas(layers.data, new_z_index)
               THEN StepResult(layers, <<>>, FALSE, None)
               ELSE LET swapped == VecSwap(layers.data, old_z_index, new_z_index)
                    IN  StepResult(
                          [layers EXCEPT !.data = swapped],
                          <<Event("LayerZIndexUpdated", event.id),
                            Event("LayerZIndexUpdated", VecAt(swapped, new_z_index).id)>>,
                          FALSE, None)

\* handle_move_layer_events, one iteration of the loop.  old_z_index - 1 on
\* usize 0 panics in a build with overflow checks (checks) and wraps to
\* usize::MAX in a build without.
MoveStep(layers, event, checks) ==
  LET old_z_index == GetIndex(layers.data, event.id)
  IN  IF old_z_index = None
      THEN StepResult(layers, <<>>, FALSE, None)
      ELSE IF event.dir = "Down" /\ old_z_index = 0 /\ checks
      THEN StepResult(layers, <<>>, TRUE, None)
      ELSE LET new_z_index ==
                 IF event.dir = "Up" THEN old_z_index + 1
                 ELSE IF old_z_index = 0 THEN UsizeMax
                 ELSE old_z_index - 1
           IN  IF ~VecHas(layers.data, new_z_index)
               THEN StepResult(layers, <<>>, FALSE, None)
               ELSE StepResult(
                      [layers EXCEPT !.data = VecSwap(layers.data, old_z_index, new_z_index)],
                      <<Event("LayerZIndexUpdated", event.id),
                        Event("LayerZIndexUpdated", VecAt(layers.data, new_z_index).id)>>,
                      FALSE, None)

\* handle_map_clicked_events, one iteration of the loop
ClickStep(layers, event, checks) ==
  LET r == SetSelectedLayerFromMousePress(layers, event.coord)
  IN  StepResult(r.layers, <<>>, FALSE, r.changed)

\* The event loop of a system: the iterations in order, until one panics.
\* Yields one record per iteration: the event, the store before and after,
\* the events sent, the value returned by the store call.
LoopBody(op, layers, event, checks) ==
  CASE op = "toggle" -> ToggleStep(layers, event, checks)
    [] op = "color" -> ColorStep(layers, event, checks)
    [] op = "delete" -> DeleteStep(layers, event, checks)
    [] op = "move" -> MoveStep(layers, event, checks)
    [] op = "click" -> ClickStep(layers, event, checks)

RECURSIVE RunLoop(_, _, _, _)
RunLoop(op, layers, events, checks) ==
  IF events = <<>> THEN <<>>
  ELSE LET r == LoopBody(op, layers, Head(events), checks)
           rec == [event |-> Head(events), before |-> layers, after |-> r.layers,
                   out |-> r.out, panic |-> r.panic, ret |-> r.ret]
       IN  IF r.panic THEN <<rec>>
           ELSE <<rec>> \o RunLoop(op, r.layers, Tail(events), checks)

RECURSIVE Outs(_)
Outs(steps) == IF steps = <<>> THEN <<>> ELSE Head(steps).out \o Outs(Tail(steps))

FinalLayers(layers, steps) == IF steps = <<>> THEN layers ELSE steps[Len(steps)].after
Panicked(steps) == steps # <<>> /\ steps[Len(steps)].panic

Layers == [data |-> data, selected_layer_id |-> selected_layer_id]

NoSteps(op) == [op |-> op, steps |-> <<>>]

\* No system run has the store for writing; the renderer is between two events
NoWriter == [op |-> "none", edits |-> <<>>, mid |-> FALSE]
NoReader == [pc |-> "idle"]

\* EntityStore::default(): no layer has entities
EntityStoreDefault == <<>>

\* The readers of the renderer have read every event sent
NoRendererEvents == [loaded |-> <<>>, toggle |-> <<>>, color |-> <<>>]

\* No system has run in the current frame
Idle == ~panicked /\ last = NoSteps("none")

\* A system of rgis-layers runs over the events it reads
RunSystem(op, steps) ==
  /\ Idle
  /\ data' = FinalLayers(Layers, steps).data
  /\ selected_layer_id' = FinalLayers(Layers, steps).selected_layer_id
  /\ emitted' = Outs(steps)
  /\ panicked' = Panicked(steps)
  /\ last' = [op |-> op, steps |-> steps]
  /\ UNCHANGED <<COUNTER, layer_id_counter, issued, pipeVars, rwVars, renderVars>>

handle_toggle_layer_visibility_events ==
  \E events \in SeqsUpTo(ToggleEvents, MaxBatch) :
    RunSystem("toggle", RunLoop("toggle", Layers, events, FALSE))

handle_update_color_events ==
  \E events \in SeqsUpTo(ColorEvents, MaxBatch) :
    RunSystem("color", RunLoop("color", Layers, events, FALSE))

handle_delete_layer_events ==
  \E events \in SeqsUpTo(DeleteEvents, MaxBatch) :
    RunSystem("delete", RunLoop("delete", Layers, events, FALSE))

handle_move_layer_events ==
  \E events \in SeqsUpTo(MoveEvents, MaxBatch), overflow_checks \in BOOLEAN :
    RunSystem("move", RunLoop("move", Layers, events, overflow_checks))

handle_map_clicked_events ==
  \E events \in SeqsUpTo(ClickEvents, MaxBatch) :
    RunSystem("click", RunLoop("click", Layers, events, FALSE))

\* ---- rgis-file-loader ----
LoadKinds == {"FromPath", "FromBytes", "FromNetwork"}

\* A step of the loading pipeline before handle_loaded_layers leaves the
\* store alone and sends no event of rgis-layers
PipeStep ==
  /\ Idle
  /\ UNCHANGED <<storeVars, layer_id_counter, issued, panicked, emitted, last, rwVars, renderVars>>

RECURSIVE Candidates(_)
RECURSIVE SumLen(_)
SumLen(evs) == IF evs = <<>> THEN 0 ELSE Len(Head(evs).source) + SumLen(Tail(evs))

RECURSIVE TaskLayers(_)
TaskLayers(ts) ==
  IF ts = {} THEN 0
  ELSE LET t == CHOOSE x \in ts : TRUE
       IN  (IF t.failed THEN 0 ELSE Len(t.todo) + Len(t.built)) + TaskLayers(ts \ {t})

\* Layers on their way to the store
InFlight ==
  SumLen(load_events) + SumLen(network_tasks)
    + SumLen(SelectSeq(network_finished, LAMBDA o : o.ok))
    + TaskLayers(tasks) + Len(Candidates(task_finished))

\* The UI or the command line sends a LoadGeoJsonFileEvent (load_layers_from_cli)
SendLoadEvent ==
  \E kind \in LoadKinds, source \in Sources :
    /\ requested + Len(source) <= MaxIds
    /\ Count(data) + InFlight + Len(source) <= MaxLayers
    /\ Len(load_events) < MaxPending
    /\ load_events' = Append(load_events, [kind |-> kind, source |-> source])
    /\ requested' = requested + Len(source)
    /\ PipeStep
    /\ UNCHANGED <<COUNTER, network_tasks, network_finished, tasks,
                   task_finished>>

\* As FetchedToLoadEvents, with a FromBytes event sent for a failed fetch too
FetchedAllToLoadEvents(outcomes) ==
  [i \in DOMAIN outcomes |-> [kind |-> "FromBytes", source |-> outcomes[i].source]]

\* load_geojson_file_handler, first loop: a fetched file becomes a FromBytes event
RECURSIVE FetchedToLoadEvents(_)
FetchedToLoadEvents(outcomes) ==
  IF outcomes = <<>> THEN <<>>
  ELSE (IF Head(outcomes).ok
        THEN <<[kind |-> "FromBytes", source |-> Head(outcomes).source]>>
        ELSE <<>>) \o FetchedToLoadEvents(Tail(outcomes))

\* The spawn() calls of LoadGeoJsonFileTasks so far, counted from the oldest
\* task whose outcome has not been drained yet
LoadTaskSeq ==
  LET ns == {t.n : t \in tasks} \cup {o.n : o \in Range(task_finished)}
  IN  IF ns = {} THEN 0 ELSE SetMax(ns)

\* The same for NetworkFetchTasks
NetworkTaskSeq ==
  LET ns == {t.n : t \in Range(network_tasks)} \cup {o.n : o \in Range(network_finished)}
  IN  IF ns = {} THEN 0 ELSE SetMax(ns)

\* load_geojson_file_handler, second loop: the LoadGeoJsonFileTasks spawned
\* for the FromPath and FromBytes events, n the position of the spawn() call
SpawnedLoadTasks(events, seq) ==
  LET loads == SelectSeq(events, LAMBDA e : e.kind # "FromNetwork")
  IN  {[n |-> seq + i, todo |-> loads[i].source, built |-> <<>>, failed |-> FALSE,
         overtaken |-> FALSE] : i \in DOMAIN loads}

\* the NetworkFetchTasks spawned for the FromNetwork events, in the order spawned
SpawnedNetworkTasks(events, seq) ==
  LET net == SelectSeq(events, LAMBDA e : e.kind = "FromNetwork")
  IN  [i \in DOMAIN net |-> [n |-> seq + i, source |-> net[i].source]]

\* load_geojson_file_handler
load_geojson_file_handler ==
  /\ Idle
  /\ network_finished # <<>> \/ load_events # <<>>
  /\ LET events == load_events \o FetchedToLoadEvents(network_finished)
         spawned == SpawnedLoadTasks(events, LoadTaskSeq)
         fetches == SpawnedNetworkTasks(events, NetworkTaskSeq)
     IN  /\ tasks' = tasks \cup spawned
         /\ network_tasks' = network_tasks \o fetches
         /\ last' = [op |-> "load_geojson_file_handler", steps |-> <<>>,
                     fetched |-> network_finished, events |-> load_events,
                     spawned |-> spawned, fetches |-> fetches]
  /\ load_events' = <<>>
  /\ network_finished' = <<>>
  /\ UNCHANGED <<storeVars, COUNTER, layer_id_counter, issued, panicked, emitted,
                 requested, task_finished, rwVars, renderVars>>

\* The completion mailbox of a task kind: the outcomes waiting for the next
\* drain, in the order in which their tasks were spawned
MailboxPut(mailbox, outcome) ==
  SelectSeq(mailbox, LAMBDA o : o.n < outcome.n) \o <<outcome>>
    \o SelectSeq(mailbox, LAMBDA o : o.n > outcome.n)

\* NetworkFetchTask::perform ends, with the bytes or with an error
NetworkFetchFinished ==
  \E i \in DOMAIN network_tasks, ok \in BOOLEAN :
    /\ network_tasks' = SubSeq(network_tasks, 1, i - 1)
                          \o SubSeq(network_tasks, i + 1, Len(network_tasks))
    /\ network_finished' =
         MailboxPut(network_finished,
                    [n |-> network_tasks[i].n, ok |-> ok,
                     source |-> network_tasks[i].source])
    /\ PipeStep
    /\ UNCHANGED <<COUNTER, load_events, requested, tasks, task_finished>>

\* LoadGeoJsonFileTask::perform on a worker: GeoJsonSource::load builds the
\* next candidate layer, the first error ends the load
TaskBuild ==
  \E t \in tasks :
    /\ ~t.failed /\ t.todo # <<>>
    /\ LET r == UnassignedLayerFromGeometry(Head(t.todo), COUNTER)
       IN  /\ COUNTER' = r.counter
           /\ tasks' = (tasks \ {t}) \cup
                {IF r.ok
                 THEN [t EXCEPT !.todo = Tail(t.todo), !.built = Append(t.built, r.value)]
                 ELSE [t EXCEPT !.failed = TRUE]}
    /\ PipeStep
    /\ UNCHANGED <<load_events, requested, network_tasks, network_finished,
                   task_finished>>

\* The task ends: its outcome is sent as a TaskFinishedEvent
TaskFinished ==
  \E t \in tasks :
    /\ t.failed \/ t.todo = <<>>
    /\ tasks' = tasks \ {t}
    /\ task_finished' = MailboxPut(task_finished,
         [n |-> t.n, ok |-> ~t.failed, layers |-> IF t.failed THEN <<>> ELSE t.built,
          overtaken |-> t.overtaken])
    /\ PipeStep
    /\ UNCHANGED <<COUNTER, load_events, requested, network_tasks, network_finished>>

\* As Candidates, with the outcomes after a failed one left out
RECURSIVE CandidatesUntilError(_)
CandidatesUntilError(outcomes) ==
  IF outcomes = <<>> \/ ~Head(outcomes).ok THEN <<>>
  ELSE Head(outcomes).layers \o CandidatesUntilError(Tail(outcomes))

\* As Candidates, with the outcomes taken newest first
RECURSIVE CandidatesNewestFirst(_)
CandidatesNewestFirst(outcomes) ==
  IF outcomes = <<>> THEN <<>>
  ELSE CandidatesNewestFirst(Tail(outcomes))
         \o (IF Head(outcomes).ok THEN Head(outcomes).layers ELSE <<>>)

\* handle_loaded_layers: the candidate layers of the drained outcomes, in order
Candidates(outcomes) ==
  IF outcomes = <<>> THEN <<>>
  ELSE (IF Head(outcomes).ok THEN Head(outcomes).layers ELSE <<>>)
         \o Candidates(Tail(outcomes))

\* handle_loaded_layers, the inner loop: add and send LayerLoadedEvent
RECURSIVE AddLoop(_, _, _)
AddLoop(layers, unassigned_layers, idc) ==
  IF unassigned_layers = <<>> THEN <<>>
  ELSE LET r == Add(layers, Head(unassigned_layers), idc)
           rec == [event |-> Head(unassigned_layers), before |-> layers,
                   after |-> r.layers, out |-> <<Event("LayerLoaded", r.layer_id)>>,
                   panic |-> FALSE, ret |-> r.layer_id, counter |-> r.counter]
       IN  <<rec>> \o AddLoop(r.layers, Tail(unassigned_layers), r.counter)

\* As handle_loaded_layers, with the outcomes read and left in the queue
handle_loaded_layers_left_in_queue ==
  /\ Idle
  /\ task_finished # <<>>
  /\ LET steps == AddLoop(Layers, Candidates(task_finished), layer_id_counter)
     IN  /\ data' = FinalLayers(Layers, steps).data
         /\ selected_layer_id' = FinalLayers(Layers, steps).selected_layer_id
         /\ layer_id_counter' =
              IF steps = <<>> THEN layer_id_counter ELSE steps[Len(steps)].counter
         /\ issued' = issued \o [i \in DOMAIN steps |-> steps[i].ret]
         /\ emitted' = Outs(steps)
         /\ last' = [op |-> "handle_loaded_layers", steps |-> steps,
                     outcomes |-> task_finished, before |-> Layers]
  /\ UNCHANGED <<COUNTER, panicked, load_events, requested,
                 network_tasks, network_finished, tasks, task_finished, rwVars, renderVars>>

\* The running tasks after a drain: overtaken records that the outcome of a
\* task spawned later was received while the task was still running
Overtaken(ts, outcomes) ==
  {[t EXCEPT !.overtaken = t.overtaken \/ \E o \in Range(outcomes) : o.n > t.n] :
     t \in ts}

\* handle_loaded_layers
handle_loaded_layers ==
  /\ Idle
  /\ task_finished # <<>>
  /\ LET steps == AddLoop(Layers, Candidates(task_finished), layer_id_counter)
     IN  /\ data' = FinalLayers(Layers, steps).data
         /\ selected_layer_id' = FinalLayers(Layers, steps).selected_layer_id
         /\ layer_id_counter' =
              IF steps = <<>> THEN layer_id_counter ELSE steps[Len(steps)].counter
         /\ issued' = issued \o [i \in DOMAIN steps |-> steps[i].ret]
         /\ emitted' = Outs(steps)
         /\ last' = [op |-> "handle_loaded_layers", steps |-> steps,
                     outcomes |-> task_finished, before |-> Layers]
  /\ task_finished' = <<>>
  /\ tasks' = Overtaken(tasks, task_finished)
  /\ UNCHANGED <<COUNTER, panicked, load_events, requested,
                 network_tasks, network_finished, rwVars, renderVars>>

Init ==
  /\ data = LayersNew.data
  /\ selected_layer_id = LayersNew.selected_layer_id
  /\ COUNTER = 0
  /\ layer_id_counter = 0
  /\ issued = <<>>
  /\ panicked = FALSE
  /\ load_events = <<>>
  /\ requested = 0
  /\ network_tasks = <<>>
  /\ network_finished = <<>>
  /\ tasks = {}
  /\ task_finished = <<>>
  /\ emitted = <<>>
  /\ writer = NoWriter
  /\ reader = NoReader
  /\ entity_store = EntityStoreDefault
  /\ world = {}
  /\ renderer_events = NoRendererEvents
  /\ last = NoSteps("none")

\* The frame ends: the events sent in it are gone and the next frame starts
end_of_frame ==
  /\ ~panicked
  /\ last # NoSteps("none")
  /\ emitted' = <<>>
  /\ last' = NoSteps("none")
  /\ UNCHANGED <<storeVars, COUNTER, layer_id_counter, issued, panicked, pipeVars,
                 rwVars, renderVars>>

Next ==
  \/ SendLoadEvent
  \/ load_geojson_file_handler
  \/ NetworkFetchFinished
  \/ TaskBuild
  \/ TaskFinished
  \/ handle_loaded_layers
  \/ handle_toggle_layer_visibility_events
  \/ handle_update_color_events
  \/ handle_delete_layer_events
  \/ handle_move_layer_events
  \/ handle_map_clicked_events
  \/ end_of_frame

Spec == Init /\ [][Next]_vars

\* The app runs every system it was given in every frame: a frame ends, and
\* handle_loaded_layers is run again and again. Nothing is assumed of the
\* tasks on the workers, which may be slow or never end
SpecFair ==
  Init /\ [][Next]_vars /\ SF_vars(handle_loaded_layers) /\ WF_vars(end_of_frame)

\* ---- readers and writers of the store ----
\* The run of a system is taken apart into its writes to the store, and the
\* renderer reads the store between them where the access rules let it.

\* The stores after a load of a file: the candidates are built and added in order
RECURSIVE LoadedStore(_, _, _)
LoadedStore(layers, geometries, k) ==
  IF geometries = <<>> THEN layers
  ELSE LET u == UnassignedLayerFromGeometry(Head(geometries), k)
           r == Add(layers, u.value, k)
       IN  LoadedStore(r.layers, Tail(geometries), k + 1)

RWGeometries == {<<GB, GA>>, <<GA, GB, GA>>}

\* The writing systems taken: a write of a field, a removal, a swap and the
\* selection (handle_update_color_events writes a field as the toggle does)
RWOps == {"toggle", "delete", "move", "click"}

EventsOf(op) ==
  CASE op = "toggle" -> ToggleEvents
    [] op = "color" -> ColorEvents
    [] op = "delete" -> DeleteEvents
    [] op = "move" -> MoveEvents
    [] op = "click" -> ClickEvents

\* Vec::swap after the first of its two writes
HalfSwap(step) ==
  LET b == step.before.data
      p == PositionOf(b, step.event.id)
      q == IF step.event.dir = "Up" THEN p + 1 ELSE p - 1
  IN  [step.before EXCEPT !.data[p] = b[q]]

\* The writes of a run to the store, in order; done: the write ends an
\* iteration of the loop
RECURSIVE Edits(_, _)
Edits(op, steps) ==
  IF steps = <<>> THEN <<>>
  ELSE LET step == Head(steps)
       IN  (IF op = "move" /\ step.after # step.before
            THEN <<[layers |-> HalfSwap(step), done |-> FALSE],
                   [layers |-> step.after, done |-> TRUE]>>
            ELSE <<[layers |-> step.after, done |-> TRUE]>>)
             \o Edits(op, Tail(steps))

\* As WriterHolds, with the store taken for one iteration of the loop at a time
WriterHoldsPerIteration == writer.op # "none" /\ writer.mid

\* mut layers: ResMut<Layers>: the system has the store to itself from the
\* first to the last statement of its run
WriterHolds == writer.op # "none"

\* layers.read() gives access when no writer has the store
ArcLayersRead == ~WriterHolds

\* a writer gets the store when no reader has it
ArcLayersWrite == reader.pc = "idle"

RWUnchanged ==
  UNCHANGED <<COUNTER, layer_id_counter, issued, pipeVars, emitted, last, renderVars>>

\* A system of rgis-layers starts its run over the events it reads
system_run_begins ==
  \E op \in RWOps :
    \E events \in SeqsUpTo(EventsOf(op), RWBatch),
       overflow_checks \in (IF op = "move" THEN BOOLEAN ELSE {FALSE}) :
      LET steps == RunLoop(op, Layers, events, overflow_checks)
      IN  /\ ~panicked
          /\ writer.op = "none"
          /\ ArcLayersWrite
          /\ writer' = [op |-> op, edits |-> Edits(op, steps), mid |-> FALSE,
                        before |-> Layers, final |-> FinalLayers(Layers, steps),
                        panic |-> Panicked(steps)]
          /\ UNCHANGED <<storeVars, panicked, reader>>
          /\ RWUnchanged

\* the next write of the run
system_writes ==
  /\ writer.op # "none"
  /\ writer.edits # <<>>
  /\ ArcLayersWrite
  /\ data' = Head(writer.edits).layers.data
  /\ selected_layer_id' = Head(writer.edits).layers.selected_layer_id
  /\ writer' = [writer EXCEPT !.edits = Tail(writer.edits),
                              !.mid = ~Head(writer.edits).done]
  /\ UNCHANGED <<panicked, reader>>
  /\ RWUnchanged

\* the run ends, or panics in its last iteration
system_run_ends ==
  /\ writer.op # "none"
  /\ writer.edits = <<>>
  /\ writer' = NoWriter
  /\ panicked' = writer.panic
  /\ UNCHANGED <<storeVars, reader>>
  /\ RWUnchanged

\* layer_loaded, toggle_material_event: let layers = layers.read().unwrap()
renderer_read ==
  \E id \in Ids :
    /\ ~panicked
    /\ reader.pc = "idle"
    /\ ArcLayersRead
    /\ reader' = [pc |-> "locked", id |-> id]
    /\ UNCHANGED <<storeVars, panicked, writer>>
    /\ RWUnchanged

\* layers.get(layer_id), and the fields of the layer read after it
renderer_get ==
  /\ reader.pc = "locked"
  /\ reader' = [pc |-> "got", id |-> reader.id, observed |-> Layers,
                layer |-> Get(data, reader.id)]
  /\ UNCHANGED <<storeVars, panicked, writer>>
  /\ RWUnchanged

\* the iteration ends and the read guard is dropped
renderer_release ==
  /\ reader.pc = "got"
  /\ reader' = NoReader
  /\ UNCHANGED <<storeVars, panicked, writer>>
  /\ RWUnchanged

InitRW ==
  \E geometries \in RWGeometries :
    /\ data = LoadedStore(LayersNew, geometries, 0).data
    /\ selected_layer_id = None
    /\ COUNTER = Len(geometries)
    /\ layer_id_counter = Len(geometries)
    /\ issued = [i \in 1..Len(geometries) |-> i]
    /\ panicked = FALSE
    /\ load_events = <<>>
    /\ requested = Len(geometries)
    /\ network_tasks = <<>>
    /\ network_finished = <<>>
    /\ tasks = {}
    /\ task_finished = <<>>
    /\ emitted = <<>>
    /\ writer = NoWriter
    /\ reader = NoReader
    /\ entity_store = EntityStoreDefault
    /\ world = {}
    /\ renderer_events = NoRendererEvents
    /\ last = NoSteps("none")

NextRW ==
  \/ system_run_begins
  \/ system_writes
  \/ system_run_ends
  \/ renderer_read
  \/ renderer_get
  \/ renderer_release

SpecRW == InitRW /\ [][NextRW]_vars

\* ---- rgis-renderer ----
\* The renderer's systems read the events of the file loader and of the
\* systems of rgis-layers, and keep the entities they spawned per layer.

\* HashMap::remove
MapRemove(m, k) == [x \in DOMAIN m \ {k} |-> m[x]]

\* HashMap::entry(k).or_default().push(e)
MapPush(m, k, e) ==
  [x \in DOMAIN m \cup {k} |->
     IF x # k THEN m[x] ELSE IF k \in DOMAIN m THEN Append(m[k], e) ELSE <<e>>]

\* build_bevy_meshes: the number of meshes built for a geometry, one for
\* each of its points
BuildBevyMeshes(geometry) == Cardinality(geometry)

\* commands.spawn_bundle(..).id(): the first entity index that is free
NewEntity(w) ==
  CHOOSE e \in 1..(Cardinality(w) + 1) : e \notin w /\ \A f \in 1..(e - 1) : f \in w

\* The EntityStore and the entities of the world
Renderer == [entity_store |-> entity_store, world |-> world]

\* spawn_mesh
SpawnMesh(r, layer_id) ==
  LET entity == NewEntity(r.world)
  IN  [entity_store |-> MapPush(r.entity_store, layer_id, entity),
       world |-> r.world \cup {entity}]

\* spawn_geometry_mesh: spawn_mesh for every mesh of the layer
RECURSIVE SpawnGeometryMeshLoop(_, _, _)
SpawnGeometryMeshLoop(r, layer_id, meshes) ==
  IF meshes = 0 THEN r
  ELSE SpawnGeometryMeshLoop(SpawnMesh(r, layer_id), layer_id, meshes - 1)

SpawnGeometryMesh(r, layer) ==
  SpawnGeometryMeshLoop(r, layer.id, BuildBevyMeshes(layer.projected_feature.geometry))

\* entity_store.0.remove(&layer.id) and the despawn of the entities removed
RemoveAndDespawn(r, layer_id) ==
  [entity_store |-> MapRemove(r.entity_store, layer_id),
   world |-> r.world \ Range(r.entity_store[layer_id])]

\* layer_loaded, one iteration; sent: the CenterCameraEvents
LayerLoadedStep(r, d, id) ==
  LET found == Get(d, id)
  IN  IF found = {} THEN [r |-> r, sent |-> <<>>]
      ELSE LET layer == CHOOSE l \in found : TRUE
           IN  IF ~layer.visible THEN [r |-> r, sent |-> <<>>]
               ELSE [r |-> SpawnGeometryMesh(r, layer),
                     sent |-> <<Event("CenterCamera", layer.id)>>]

RECURSIVE LayerLoadedLoop(_, _, _)
LayerLoadedLoop(r, d, events) ==
  IF events = <<>> THEN [r |-> r, sent |-> <<>>]
  ELSE LET step == LayerLoadedStep(r, d, Head(events))
           rest == LayerLoadedLoop(step.r, d, Tail(events))
       IN  [r |-> rest.r, sent |-> step.sent \o rest.sent]

\* toggle_material_event, one iteration of the first loop
ToggleMaterialStep(r, d, event) ==
  LET found == Get(d, event.id)
  IN  IF found = {} THEN r
      ELSE LET layer == CHOOSE l \in found : TRUE
           IN  IF event.kind = "Show" THEN SpawnGeometryMesh(r, layer)
               ELSE IF layer.id \notin DOMAIN r.entity_store THEN r
               ELSE RemoveAndDespawn(r, layer.id)

\* toggle_material_event, one iteration of the second loop
ColorUpdatedStep(r, d, id) ==
  LET found == Get(d, id)
  IN  IF found = {} THEN r
      ELSE LET layer == CHOOSE l \in found : TRUE
           IN  IF layer.id \notin DOMAIN r.entity_store THEN r
               ELSE SpawnGeometryMesh(RemoveAndDespawn(r, layer.id), layer)

RECURSIVE ToggleMaterialLoop(_, _, _)
ToggleMaterialLoop(r, d, events) ==
  IF events = <<>> THEN r
  ELSE ToggleMaterialLoop(ToggleMaterialStep(r, d, Head(events)), d, Tail(events))

RECURSIVE ColorUpdatedLoop(_, _, _)
ColorUpdatedLoop(r, d, events) ==
  IF events = <<>> THEN r
  ELSE ColorUpdatedLoop(ColorUpdatedStep(r, d, Head(events)), d, Tail(events))

\* The events sent by rgis-layers and the file loader as the readers of the
\* renderer get them: layer-became-visible as Show, layer-became-hidden as
\* Hide; the renderer has no reader for the other events
RECURSIVE Delivered(_, _)
Delivered(q, outs) ==
  IF outs = <<>> THEN q
  ELSE LET e == Head(outs)
           next ==
             CASE e.kind = "LayerLoaded" ->
                    [q EXCEPT !.loaded = Append(@, e.id)]
               [] e.kind = "LayerBecameVisible" ->
                    [q EXCEPT !.toggle = Append(@, [kind |-> "Show", id |-> e.id])]
               [] e.kind = "LayerBecameHidden" ->
                    [q EXCEPT !.toggle = Append(@, [kind |-> "Hide", id |-> e.id])]
               [] e.kind = "LayerColorUpdated" ->
                    [q EXCEPT !.color = Append(@, e.id)]
               [] OTHER -> q
       IN  Delivered(next, Tail(outs))

\* The systems of rgis-layers whose events the renderer is to follow
RenderOps == {"toggle", "color", "delete"}

\* A system of rgis-layers runs, and its events wait for the renderer
system_run_sends ==
  \E op \in RenderOps :
    \E events \in SeqsUpTo(EventsOf(op), MaxBatch) \ {<<>>} :
      LET steps == RunLoop(op, Layers, events, FALSE)
      IN  /\ ~panicked
          /\ Len(renderer_events.toggle) + Len(renderer_events.color)
                + Len(Outs(steps)) <= MaxRendererEvents
          /\ data' = FinalLayers(Layers, steps).data
          /\ selected_layer_id' = FinalLayers(Layers, steps).selected_layer_id
          /\ renderer_events' = Delivered(renderer_events, Outs(steps))
          /\ UNCHANGED <<COUNTER, layer_id_counter, issued, panicked, pipeVars,
                         emitted, rwVars, entity_store, world, last>>

\* layer_loaded
layer_loaded ==
  /\ ~panicked
  /\ renderer_events.loaded # <<>>
  /\ LET run == LayerLoadedLoop(Renderer, data, renderer_events.loaded)
     IN  /\ entity_store' = run.r.entity_store
         /\ world' = run.r.world
         /\ emitted' = run.sent
  /\ renderer_events' = [renderer_events EXCEPT !.loaded = <<>>]
  /\ UNCHANGED <<storeVars, COUNTER, layer_id_counter, issued, panicked, pipeVars,
                 rwVars, last>>

\* toggle_material_event: the ToggleMaterialEvents, then the LayerColorUpdated
toggle_material_event ==
  /\ ~panicked
  /\ renderer_events.toggle # <<>> \/ renderer_events.color # <<>>
  /\ LET shown == ToggleMaterialLoop(Renderer, data, renderer_events.toggle)
         r == ColorUpdatedLoop(shown, data, renderer_events.color)
     IN  /\ entity_store' = r.entity_store
         /\ world' = r.world
  /\ renderer_events' = [renderer_events EXCEPT !.toggle = <<>>, !.color = <<>>]
  /\ UNCHANGED <<storeVars, COUNTER, layer_id_counter, issued, panicked, pipeVars,
                 emitted, rwVars, last>>

\* The files loaded in SpecRender
RenderGeometries == {<<GA>>, <<GB, GA>>}

\* The layers of a file were added, and their LayerLoadedEvents wait for the
\* renderer

InitRender ==
  \E geometries \in RenderGeometries :
    /\ data = LoadedStore(LayersNew, geometries, 0).data
    /\ selected_layer_id = None
    /\ COUNTER = Len(geometries)
    /\ layer_id_counter = Len(geometries)
    /\ issued = [i \in 1..Len(geometries) |-> i]
    /\ panicked = FALSE
    /\ load_events = <<>>
    /\ requested = Len(geometries)
    /\ network_tasks = <<>>
    /\ network_finished = <<>>
    /\ tasks = {}
    /\ task_finished = <<>>
    /\ emitted = <<>>
    /\ writer = NoWriter
    /\ reader = NoReader
    /\ entity_store = EntityStoreDefault
    /\ world = {}
    /\ renderer_events =
         [NoRendererEvents EXCEPT !.loaded = [i \in 1..Len(geometries) |-> i]]
    /\ last = NoSteps("none")

NextRender ==
  \/ system_run_sends
  \/ layer_loaded
  \/ toggle_material_event

SpecRender == InitRender /\ [][NextRender]_vars

\* ---- properties ----
IdsOf(d) == {d[i].id : i \in DOMAIN d}
Steps == last.steps
\* 1-based positions of the layers of d whose exact geometry contains the point
Hits(d, coord) == {i \in DOMAIN d : coord \in d[i].projected_feature.geometry}

\* C1: selected_layer_id is none or the id of a layer in the store, also
\* after the selected layer was deleted
C1_SelectionNamesLayer ==
  selected_layer_id = None \/ selected_layer_id \in IdsOf(data)

\* C2: the ids of the layers in the store are pairwise distinct and no id
\* returned by add is returned again by a later add, also after its layer
\* was removed
C2_IdsNeverReused ==
  /\ \A i, j \in DOMAIN data : i # j => data[i].id # data[j].id
  /\ \A i, j \in DOMAIN issued : i # j => issued[i] # issued[j]
  /\ IdsOf(data) \subseteq Range(issued)

\* an add has returned an id after a layer added earlier was removed
C2_AddAfterRemove ==
  /\ last.op = "handle_loaded_layers" /\ Steps # <<>>
  /\ \E k \in DOMAIN issued :
       /\ k <= Len(issued) - Len(Steps)
       /\ issued[k] \notin IdsOf(Steps[1].before.data)

MoveAtBoundary(step) ==
  LET d == step.before.data
  IN  /\ step.event.id \in IdsOf(d)
      /\ \/ step.event.dir = "Down" /\ d[1].id = step.event.id
         \/ step.event.dir = "Up" /\ d[Len(d)].id = step.event.id

\* C3: a move Down of the bottommost layer and a move Up of the topmost
\* layer leave the store unchanged, send no event and do not panic
C3_MoveAtBoundaryIsNoOp ==
  last.op = "move" =>
    \A i \in DOMAIN Steps :
      MoveAtBoundary(Steps[i]) =>
        /\ Steps[i].after = Steps[i].before
        /\ Steps[i].out = <<>>
        /\ ~Steps[i].panic

MoveHasNeighbour(step) ==
  /\ step.event.id \in IdsOf(step.before.data)
  /\ ~MoveAtBoundary(step)

\* C4: a move of a layer with a neighbour in the direction swaps the two,
\* leaves every other position alone and sends exactly the two
\* z-index-updated events of the moved layer and of the neighbour
C4_MoveSwapsNeighbours ==
  last.op = "move" =>
    \A i \in DOMAIN Steps :
      MoveHasNeighbour(Steps[i]) =>
        LET b == Steps[i].before.data
            a == Steps[i].after.data
            from == PositionOf(b, Steps[i].event.id)
            to == IF Steps[i].event.dir = "Up" THEN from + 1 ELSE from - 1
        IN  /\ ~Steps[i].panic
            /\ Len(a) = Len(b)
            /\ a[to] = b[from] /\ a[from] = b[to]
            /\ \A k \in DOMAIN b : k \notin {from, to} => a[k] = b[k]
            /\ Steps[i].after.selected_layer_id = Steps[i].before.selected_layer_id
            /\ Steps[i].out = <<Event("LayerZIndexUpdated", b[from].id),
                                Event("LayerZIndexUpdated", b[to].id)>>

\* a layer of a store of three was moved past its neighbour
C4_MovedWithBystander ==
  /\ last.op = "move" /\ Steps # <<>>
  /\ MoveHasNeighbour(Steps[1])
  /\ Len(Steps[1].before.data) = 3
  /\ Steps[1].after.data # Steps[1].before.data

\* C5: add returns a fresh id, puts the new layer at the last position with
\* visible = true, leaves the layers already there and their order alone and
\* makes count() one more; N candidates added to an empty store give N
\* distinct ids and count() = N
C5_AddAppends ==
  last.op = "handle_loaded_layers" =>
    /\ \A i \in DOMAIN Steps :
         LET b == Steps[i].before.data
             a == Steps[i].after.data
             k == Len(issued) - Len(Steps) + i
         IN  /\ Count(a) = Count(b) + 1
             /\ SubSeq(a, 1, Len(b)) = b
             /\ a[Len(a)].id = Steps[i].ret
             /\ a[Len(a)].visible = TRUE
             /\ a[Len(a)].projected_feature = Steps[i].event.projected_feature
             /\ Steps[i].ret \notin IdsOf(b)
             /\ \A j \in 1..(k - 1) : issued[j] # Steps[i].ret
    /\ (Steps # <<>> /\ Steps[1].before.data = <<>>) =>
         /\ Count(data) = Len(Steps)
         /\ Cardinality({Steps[i].ret : i \in DOMAIN Steps}) = Len(Steps)

\* two candidates of one outcome were added on top of a layer already there
C5_TwoAddedOnTop ==
  /\ last.op = "handle_loaded_layers"
  /\ Len(Steps) = 2
  /\ Steps[1].before.data # <<>>

\* C6: after remove(id), get(id) is none and the other layers keep their
\* order; remove of an id that is not in the store changes nothing
C6_RemoveKeepsOthers ==
  last.op = "delete" =>
    \A i \in DOMAIN Steps :
      LET b == Steps[i].before.data
          a == Steps[i].after.data
          id == Steps[i].event.id
      IN  /\ ~Steps[i].panic
          /\ Get(a, id) = {}
          /\ a = SelectSeq(b, LAMBDA layer : layer.id # id)
          /\ id \notin IdsOf(b) => Count(a) = Count(b) /\ a = b

\* the bottom layer of a store of three was removed
C6_RemovedBelowOthers ==
  /\ last.op = "delete" /\ Steps # <<>>
  /\ Len(Steps[1].before.data) = 3
  /\ Steps[1].before.data[1].id = Steps[1].event.id

SetMaxOf(S) == CHOOSE x \in S : \A y \in S : x >= y

\* C7: a click inside the geometry of two or more layers selects the one of
\* them that is highest in the stored order
C7_TopmostWins ==
  last.op = "click" =>
    \A i \in DOMAIN Steps :
      LET b == Steps[i].before.data
          hits == Hits(b, Steps[i].event.coord)
      IN  Cardinality(hits) >= 2 =>
            Steps[i].after.selected_layer_id = b[SetMaxOf(hits)].id

\* a click hit two layers of which the upper was added before the lower
C7_ClickOnReorderedOverlap ==
  /\ last.op = "click" /\ Steps # <<>>
  /\ LET b == Steps[1].before.data
         hits == Hits(b, Steps[1].event.coord)
     IN  /\ Cardinality(hits) >= 2
         /\ \E h \in hits : b[h].id > b[SetMaxOf(hits)].id
         /\ Steps[1].after.selected_layer_id = b[SetMaxOf(hits)].id

\* C8: select_at returns true exactly when the selection after the call
\* differs from the one before: a click inside exactly one layer selects it,
\* a repeated click at the point returns false, a click in no layer sets
\* the selection to none
C8_ChangedIffSelectionDiffers ==
  last.op = "click" =>
    /\ \A i \in DOMAIN Steps :
         LET b == Steps[i].before
             a == Steps[i].after
             hits == Hits(b.data, Steps[i].event.coord)
         IN  /\ Steps[i].ret = (a.selected_layer_id # b.selected_layer_id)
             /\ a.data = b.data
             /\ \A h \in hits :
                  hits = {h} =>
                    /\ a.selected_layer_id = b.data[h].id
                    /\ Steps[i].ret = (b.selected_layer_id # b.data[h].id)
             /\ hits = {} =>
                  /\ a.selected_layer_id = None
                  /\ Steps[i].ret = (b.selected_layer_id # None)
    /\ \A i \in DOMAIN Steps :
         (i > 1 /\ Steps[i].event = Steps[i - 1].event) => Steps[i].ret = FALSE

\* a click inside exactly one layer was repeated: the layer stays selected
C8_RepeatedClick ==
  /\ last.op = "click" /\ Steps # <<>>
  /\ Cardinality(Hits(Steps[1].before.data, Steps[1].event.coord)) = 1
  /\ Steps[1].after.selected_layer_id # None
  /\ Steps[1].before.selected_layer_id = Steps[1].after.selected_layer_id
  /\ Steps[1].ret = FALSE

\* C9: the k-th layer added to the store (k from 0) has the color
\* palette[k mod 10]
C9_PaletteByAddCount ==
  last.op = "handle_loaded_layers" =>
    \A i \in DOMAIN Steps :
      LET a == Steps[i].after.data
          k == Len(issued) - Len(Steps) + i - 1
      IN  a[Len(a)].color = COLORS[k % PaletteSize]

\* C10: toggle-visibility, set-color, move and delete of an id that is not
\* in the store do not panic and leave the store unchanged
C10_UnknownIdIsNoOp ==
  last.op \in {"toggle", "color", "move", "delete"} =>
    \A i \in DOMAIN Steps :
      Steps[i].event.id \notin IdsOf(Steps[i].before.data) =>
        /\ Steps[i].after = Steps[i].before
        /\ ~Steps[i].panic

\* a delete of the id of a layer removed earlier, on a store that holds layers
C10_DeleteOfRemovedId ==
  /\ last.op = "delete" /\ Steps # <<>>
  /\ Steps[1].event.id \notin IdsOf(Steps[1].before.data)
  /\ Steps[1].event.id \in Range(issued)
  /\ Steps[1].before.data # <<>>

\* C11: a toggle of a layer in the store flips its visible flag and sends
\* exactly one event, LayerBecameVisible if the layer is now visible and
\* LayerBecameHidden if not; a second toggle right after it restores the
\* store and sends the one event of the other kind
C11_ToggleFlipsAndReports ==
  last.op = "toggle" =>
    \A i \in DOMAIN Steps :
      Steps[i].event.id \in IdsOf(Steps[i].before.data) =>
        LET b == Steps[i].before.data
            a == Steps[i].after.data
            id == Steps[i].event.id
            p == PositionOf(b, id)
            kind(v) == IF v THEN "LayerBecameVisible" ELSE "LayerBecameHidden"
            second == ToggleStep(Steps[i].after, Steps[i].event, FALSE)
        IN  /\ ~Steps[i].panic
            /\ Len(a) = Len(b)
            /\ a[p].visible = ~b[p].visible
            /\ a = [b EXCEPT ![p].visible = ~b[p].visible]
            /\ Steps[i].after.selected_layer_id = Steps[i].before.selected_layer_id
            /\ Steps[i].out = <<Event(kind(a[p].visible), id)>>
            /\ second.layers = Steps[i].before
            /\ second.out = <<Event(kind(b[p].visible), id)>>
            /\ second.out # Steps[i].out

\* a hidden layer of a store of two was toggled back to visible
C11_ToggledBackToVisible ==
  /\ last.op = "toggle" /\ Steps # <<>>
  /\ Len(Steps[1].before.data) >= 2
  /\ Steps[1].event.id \in IdsOf(Steps[1].before.data)
  /\ ~Steps[1].before.data[PositionOf(Steps[1].before.data, Steps[1].event.id)].visible
  /\ Steps[1].out = <<Event("LayerBecameVisible", Steps[1].event.id)>>

\* candidate layers in the successful outcomes before the j-th
RECURSIVE CandidatesBefore(_, _)
CandidatesBefore(outcomes, j) ==
  IF j <= 1 THEN 0
  ELSE CandidatesBefore(outcomes, j - 1)
         + (IF outcomes[j - 1].ok THEN Len(outcomes[j - 1].layers) ELSE 0)

Drained == last.outcomes

\* C12: a drain adds every candidate layer of every successful outcome
\* exactly once, in the order of the outcomes and of the candidates in them,
\* sends after each add one LayerLoaded event with the id the add returned,
\* and leaves none of the outcomes behind for a later drain
C12_OutcomeAddedExactlyOnce ==
  last.op = "handle_loaded_layers" =>
    LET base == Len(last.before.data)
        total == CandidatesBefore(Drained, Len(Drained) + 1)
    IN  /\ Len(Steps) = total
        /\ Len(data) = base + total
        /\ SubSeq(data, 1, base) = last.before.data
        /\ \A j \in DOMAIN Drained :
             Drained[j].ok =>
               \A k \in DOMAIN Drained[j].layers :
                 LET i == CandidatesBefore(Drained, j) + k
                 IN  /\ Steps[i].event = Drained[j].layers[k]
                     /\ data[base + i].projected_feature
                          = Drained[j].layers[k].projected_feature
                     /\ data[base + i].color = Drained[j].layers[k].color
                     /\ data[base + i].id = Steps[i].ret
        /\ emitted = [i \in 1..total |-> Event("LayerLoaded", Steps[i].ret)]
        /\ \A i \in DOMAIN Steps : Steps[i].out = <<Event("LayerLoaded", Steps[i].ret)>>
        /\ task_finished = <<>>
        /\ \A o \in Range(Drained) : \A t \in tasks : t.n # o.n

\* one drain received two successful outcomes with three candidates in all
C12_ThreeCandidatesOfTwoOutcomes ==
  /\ last.op = "handle_loaded_layers"
  /\ Len(Drained) = 2
  /\ \A j \in DOMAIN Drained : Drained[j].ok
  /\ Len(Steps) = 3

\* C13: a failed outcome adds no layer and sends no event, is not retried,
\* and the successful outcomes of the same drain, also those after it, are
\* added all the same; a drain of failed outcomes only leaves the store as
\* it was
C13_FailedOutcomeDiscarded ==
  last.op = "handle_loaded_layers" =>
    LET oks == SelectSeq(Drained, LAMBDA o : o.ok)
        added == SubSeq(data, Len(last.before.data) + 1, Len(data))
    IN  /\ Len(added) = CandidatesBefore(oks, Len(oks) + 1)
        /\ Len(emitted) = Len(added)
        /\ \A j \in DOMAIN oks : \A k \in DOMAIN oks[j].layers :
             added[CandidatesBefore(oks, j) + k].projected_feature
               = oks[j].layers[k].projected_feature
        /\ (\A j \in DOMAIN Drained : ~Drained[j].ok) =>
             /\ data = last.before.data
             /\ selected_layer_id = last.before.selected_layer_id
             /\ emitted = <<>>
        /\ \A o \in Range(Drained) :
             ~o.ok => /\ \A t \in tasks : t.n # o.n
                      /\ \A q \in Range(task_finished) : q.n # o.n

\* a drain received a failed outcome and after it a successful one
C13_SuccessAfterFailure ==
  /\ last.op = "handle_loaded_layers"
  /\ \E i, j \in DOMAIN Drained : i < j /\ ~Drained[i].ok /\ Drained[j].ok
  /\ Len(data) > Len(last.before.data)

\* C14 as claimed: the consumer receives the outcomes in the order in which
\* their tasks were spawned, whatever the order in which the tasks finish:
\* no outcome is received after the outcome of a task spawned later
C14_ReceivedInSpawnOrder ==
  last.op = "handle_loaded_layers" =>
    \A o \in Range(Drained) : ~o.overtaken

\* C14 as amended: the outcomes of one drain are received in the order in
\* which their tasks were spawned and the layers the drain adds are stacked
\* in that order
C14_DrainInSpawnOrder ==
  last.op = "handle_loaded_layers" =>
    /\ \A i, j \in DOMAIN Drained : i < j => Drained[i].n < Drained[j].n
    /\ \A i, j \in DOMAIN Drained :
         (Drained[i].n < Drained[j].n /\ Drained[i].ok /\ Drained[j].ok) =>
           \A k \in DOMAIN Drained[i].layers, m \in DOMAIN Drained[j].layers :
             \E p, q \in DOMAIN data :
               /\ p > Len(last.before.data) /\ p < q
               /\ data[p].color = Drained[i].layers[k].color
               /\ data[q].color = Drained[j].layers[m].color

\* one drain received two successful outcomes of which the task spawned
\* second had built its candidate first
C14_BuiltInOtherOrder ==
  /\ last.op = "handle_loaded_layers"
  /\ Len(Drained) = 2
  /\ Drained[1].ok /\ Drained[2].ok
  /\ Drained[1].layers[1].color > Drained[2].layers[1].color
  /\ data[Len(data)].color = Drained[2].layers[Len(Drained[2].layers)].color

\* the tasks of a set, as the sequence in the order spawned
RECURSIVE BySpawn(_)
BySpawn(ts) ==
  IF ts = {} THEN <<>>
  ELSE LET t == CHOOSE x \in ts : \A y \in ts : x.n <= y.n
       IN  <<t>> \o BySpawn(ts \ {t})

\* C20: load_geojson_file_handler spawns, in the run that drains them, one
\* LoadGeoJsonFileTask for each successful fetch outcome, with the fetched
\* bytes, and nothing for a failed one: the outcome is gone and no fetch is
\* started again for it
C20_FetchedBecomesOneTask ==
  last.op = "load_geojson_file_handler" =>
    LET okf == SelectSeq(last.fetched, LAMBDA o : o.ok)
        loads == SelectSeq(last.events, LAMBDA e : e.kind # "FromNetwork")
        nets == SelectSeq(last.events, LAMBDA e : e.kind = "FromNetwork")
        spawned == BySpawn(last.spawned)
    IN  /\ Len(spawned) = Len(loads) + Len(okf)
        /\ last.spawned \subseteq tasks
        /\ \A i \in DOMAIN okf :
             /\ spawned[Len(loads) + i].todo = okf[i].source
             /\ spawned[Len(loads) + i].built = <<>>
             /\ ~spawned[Len(loads) + i].failed
        /\ Len(last.fetches) = Len(nets)
        /\ \A i \in DOMAIN nets : last.fetches[i].source = nets[i].source
        /\ network_finished = <<>>
        /\ load_events = <<>>

\* one run drained a failed fetch outcome and a successful one
C20_FetchedAndFailed ==
  /\ last.op = "load_geojson_file_handler"
  /\ \E o \in Range(last.fetched) : o.ok
  /\ \E o \in Range(last.fetched) : ~o.ok
  /\ Cardinality(last.spawned) = 1

\* 1-based positions of the layers whose bounding rect and whose exact
\* geometry both contain the point
Matches(d, coord) ==
  {i \in DOMAIN d :
     /\ d[i].projected_feature.bounding_rect.min <= coord
     /\ coord <= d[i].projected_feature.bounding_rect.max
     /\ coord \in d[i].projected_feature.geometry}

\* C17: containing_coord yields exactly the layers whose bounding rect and
\* geometry contain the point, each once, the topmost first and the others
\* in descending position
C17_HitTestTopToBottom ==
  \A coord \in Points :
    LET r == ContainingCoord(data, coord)
        m == Matches(data, coord)
    IN  /\ Len(r) = Cardinality(m)
        /\ \A k \in DOMAIN r : r[k].id \in {data[i].id : i \in m}
        /\ \A k, l \in DOMAIN r :
             k < l => PositionOf(data, r[k].id) > PositionOf(data, r[l].id)
        /\ r # <<>> => r[1] = data[SetMaxOf(m)]
        /\ last.op = "click" =>
             \A i \in DOMAIN Steps :
               LET mb == Matches(Steps[i].before.data, Steps[i].event.coord)
               IN  Steps[i].after.selected_layer_id =
                     IF mb = {} THEN None ELSE Steps[i].before.data[SetMaxOf(mb)].id

\* a click at a point inside the bounding rect but outside the geometry of
\* the top layer, and inside a layer below it, selected the layer below
C17_ClickThroughBoundingRect ==
  /\ last.op = "click" /\ Steps # <<>>
  /\ LET b == Steps[1].before.data
         coord == Steps[1].event.coord
     IN  /\ Len(b) >= 2
         /\ RectContains(b[Len(b)].projected_feature.bounding_rect, coord)
         /\ coord \notin b[Len(b)].projected_feature.geometry
         /\ Matches(b, coord) # {}
         /\ Steps[1].after.selected_layer_id = b[SetMaxOf(Matches(b, coord))].id

\* C18: toggle-visibility, set-color, move and delete of an id that is not
\* in the store send no event; LayerDeleted is sent only for a layer that
\* the delete removed
C18_UnknownIdEmitsNothing ==
  last.op \in {"toggle", "color", "move", "delete"} =>
    \A i \in DOMAIN Steps :
      Steps[i].event.id \notin IdsOf(Steps[i].before.data) => Steps[i].out = <<>>

\* C19: set-color of a layer in the store sets its color to the one given
\* and sends exactly one LayerColorUpdated event for the id; the id, the
\* visibility and the geometry of the layer, the other layers, the order
\* and selected_layer_id stay as they were
C19_SetColorFrame ==
  last.op = "color" =>
    \A i \in DOMAIN Steps :
      Steps[i].event.id \in IdsOf(Steps[i].before.data) =>
        LET b == Steps[i].before.data
            a == Steps[i].after.data
            p == PositionOf(b, Steps[i].event.id)
        IN  /\ ~Steps[i].panic
            /\ Len(a) = Len(b)
            /\ a[p].color = Steps[i].event.color
            /\ a[p].id = b[p].id
            /\ a[p].visible = b[p].visible
            /\ a[p].projected_feature = b[p].projected_feature
            /\ \A k \in DOMAIN b : k # p => a[k] = b[k]
            /\ Steps[i].after.selected_layer_id = Steps[i].before.selected_layer_id
            /\ Steps[i].out = <<Event("LayerColorUpdated", Steps[i].event.id)>>

\* a hidden layer of a store of two was given a color
C19_HiddenLayerRecolored ==
  /\ last.op = "color" /\ Steps # <<>>
  /\ Len(Steps[1].before.data) >= 2
  /\ Steps[1].event.id \in IdsOf(Steps[1].before.data)
  /\ LET p == PositionOf(Steps[1].before.data, Steps[1].event.id)
     IN  /\ ~Steps[1].before.data[p].visible
         /\ Steps[1].before.data[p].color # Steps[1].event.color
         /\ Steps[1].after.data[p].color = Steps[1].event.color

\* The stores at the ends of the run that writes now, or the store as it is
\* when no run writes
TickBoundaries ==
  IF writer.op = "none" THEN {Layers} ELSE {writer.before, writer.final}

C23_SelectionKeptByOtherOps ==
  last.op \in {"handle_loaded_layers", "move", "toggle", "color"} =>
    /\ \A i \in DOMAIN Steps :
         Steps[i].after.selected_layer_id = Steps[i].before.selected_layer_id
    /\ Steps # <<>> => selected_layer_id = Steps[1].before.selected_layer_id

\* layers were added while a layer of the store was selected
C23_AddedWhileSelected ==
  /\ last.op = "handle_loaded_layers" /\ Steps # <<>>
  /\ selected_layer_id # None
  /\ selected_layer_id \in IdsOf(last.before.data)

\* The store with the visible flags of its layers replaced
WithVisible(layers, flags) ==
  [layers EXCEPT !.data = [i \in DOMAIN layers.data |->
                             [layers.data[i] EXCEPT !.visible = flags[i]]]]

\* The layers of a hit test, whatever their visible flags
Unflagged(r) == [k \in DOMAIN r |-> [r[k] EXCEPT !.visible = TRUE]]

\* C22: for two stores that differ only in the visible flags of their
\* layers, containing_coord yields the same layers at every point, and
\* set_selected_layer_from_mouse_press the same selected_layer_id and the
\* same answer; the selection a click made is the one it would have made
\* with any other flags
C22_HitTestIgnoresVisible ==
  /\ \A coord \in Points, flags \in [DOMAIN data -> BOOLEAN] :
       LET other == WithVisible(Layers, flags)
           a == SetSelectedLayerFromMousePress(Layers, coord)
           b == SetSelectedLayerFromMousePress(other, coord)
       IN  /\ Unflagged(ContainingCoord(other.data, coord))
                = Unflagged(ContainingCoord(data, coord))
           /\ b.layers.selected_layer_id = a.layers.selected_layer_id
           /\ b.changed = a.changed
  /\ last.op = "click" =>
       \A i \in DOMAIN Steps :
         \A flags \in [DOMAIN Steps[i].before.data -> BOOLEAN] :
           SetSelectedLayerFromMousePress(WithVisible(Steps[i].before, flags),
                                          Steps[i].event.coord).layers.selected_layer_id
             = Steps[i].after.selected_layer_id

\* a click selected a hidden layer lying over a visible layer that contains
\* the point too
C22_HiddenLayerSelected ==
  /\ last.op = "click" /\ Steps # <<>>
  /\ LET b == Steps[1].before.data
         m == Matches(b, Steps[1].event.coord)
     IN  /\ Cardinality(m) >= 2
         /\ ~b[SetMaxOf(m)].visible
         /\ \E i \in m : b[i].visible
         /\ Steps[1].after.selected_layer_id = b[SetMaxOf(m)].id
         /\ selected_layer_id = b[SetMaxOf(m)].id

\* handle_loaded_layers has drained the outcome of task n and, if the load
\* succeeded, the store holds its layers
DrainedAndAdded(n) ==
  /\ last.op = "handle_loaded_layers"
  /\ \E i \in DOMAIN last.outcomes :
       LET o == last.outcomes[i]
       IN  /\ o.n = n
           /\ o.ok => \A k \in DOMAIN o.layers : \E j \in DOMAIN data :
                /\ data[j].projected_feature = o.layers[k].projected_feature
                /\ data[j].color = o.layers[k].color

\* C21: whatever the other tasks do, the outcome of every task that has
\* completed is eventually drained by handle_loaded_layers and, on success,
\* its layers are added to the store
C21_CompletedOutcomeIsDrained ==
  \A n \in 1..MaxIds :
    (\E i \in DOMAIN task_finished : task_finished[i].n = n) ~> DrainedAndAdded(n)

\* The renderer has read every event sent to it
RendererIdle == renderer_events = NoRendererEvents

\* C24: once the renderer has processed all pending events, its EntityStore
\* holds entities for a layer id only if the layer is in the store and is
\* visible
C24_EntitiesOnlyForVisibleLayers ==
  RendererIdle =>
    \A id \in DOMAIN entity_store :
      \E i \in DOMAIN data : data[i].id = id /\ data[i].visible

====
